---- MODULE Spec2Model ----
(***************************************************************************)
(* A model of astrbot_plugin_binance: the monitor registry                 *)
(* (services/monitor_service.py) with its command handlers                 *)
(* (commands/monitor.py), the price gateway (services/price_service.py),   *)
(* the symbol normaliser (utils/symbol.py), the background monitor task    *)
(* with its start/stop lifecycle, and the credential service               *)
(* (services/api_key_service.py, utils/crypto.py).                         *)
(*                                                                         *)
(* The program runs on one asyncio event loop.  A coroutine runs without   *)
(* interruption between two suspension points, so every action below is    *)
(* the code executed between two suspensions.  load_price_monitors and     *)
(* save_price_monitors contain no await that suspends: they run inside     *)
(* the step that calls them.  The suspension points of the monitor task    *)
(* are the HTTP request of get_price, the notification callback and        *)
(* asyncio.sleep; stop_price_monitor suspends while awaiting the task.     *)
(***************************************************************************)
EXTENDS Integers, Sequences, FiniteSets, TLC

\* ------------------------------------------------------------------ bounds
\* Number of monitor tasks asyncio.create_task makes in one behaviour of Spec.
MaxTasks == 1
\* Number of monitor tasks asyncio.create_task makes in one behaviour of SpecLife.
MaxLifeTasks == 3

\* ------------------------------------------------------------ input domains
Users == {"u1", "u2"}
\* Values of str(uuid.uuid4())[:8]; two draws may coincide.
Ids == {"m1"}
\* The concurrent callers of stop_price_monitor, of every specification.
StopCallers == {"s1", "s2"}
\* Prices the exchange reports.
Prices == {1, 2, 3}
\* Raw symbols passed to set_price_monitor: one that normalises, one that does not.
RawSymbols == {<<"b", "-", "t", "c", "u">>, <<"a", "_", "b">>}
AssetInputs == {"spot"}
\* created_at values (time.time()).
Times == {1}

\* ------------------------------------------------------------ Python values
\* Optional[float]: None is the empty sequence, a float p is <<p>>.
None == <<>>
Some(p) == <<p>>

\* A JSON value stored as target_price: a number or a string.
Num(n) == [type |-> "float", val |-> n]
Str == [type |-> "str", val |-> 0]
\* float("nan"): every comparison with it is False.
NaN == [type |-> "nan", val |-> 0]
\* The (direction, target_price) pairs passed to set_price_monitor.
RuleInputs ==
    {[direction |-> "up", target_price |-> Num(2)],
     [direction |-> "down", target_price |-> Num(2)],
     [direction |-> "up", target_price |-> Str]}

\* ------------------------------------------------------- utils/symbol.py
Whitespace == {" "}
Separators == {"-", "_"}

\* A variant of upper that leaves every character as it is.
upper_keep(c) == c

upper(c) ==
    CASE c = "a" -> "A"
      [] c = "b" -> "B"
      [] c = "c" -> "C"
      [] c = "d" -> "D"
      [] c = "s" -> "S"
      [] c = "t" -> "T"
      [] c = "u" -> "U"
      [] OTHER -> c

RECURSIVE lstrip(_)
lstrip(s) ==
    IF s # <<>> /\ Head(s) \in Whitespace THEN lstrip(Tail(s)) ELSE s

RECURSIVE rstrip(_)
rstrip(s) ==
    IF s # <<>> /\ s[Len(s)] \in Whitespace
    THEN rstrip(SubSeq(s, 1, Len(s) - 1))
    ELSE s

strip(s) == rstrip(lstrip(s))

\* A variant of replace_separators that keeps the separators.
replace_separators_none(s) == s

replace_separators(s) == SelectSeq(s, LAMBDA c : c \notin Separators)

ValueError == [ok |-> FALSE, val |-> <<>>]

\* A variant of cleaned that trims before it removes the separators.
cleaned_strip_first(symbol) == replace_separators(strip(symbol))

\* Line 12 before upper(): symbol.replace("-", "").replace("_", "").strip().
cleaned(symbol) == strip(replace_separators(symbol))

normalize_symbol(symbol) ==
    IF symbol = <<>>
    THEN ValueError
    ELSE LET stripped == cleaned(symbol)
             normalized == [i \in 1..Len(stripped) |-> upper(stripped[i])]
         IN  IF Len(normalized) < 4
             THEN ValueError
             ELSE [ok |-> TRUE, val |-> normalized]

\* ------------------------------------------- services/price_service.py
SupportedAssets == {"spot", "futures", "margin", "alpha"}

\* What the HTTP session gives back for one request: an exception ("exc"), or a
\* status with a body that is undecodable ("garbage"), a JSON object without a
\* price field ("nofield") or a JSON object with a price.
Responses ==
    {[status |-> "exc", kind |-> "none", price |-> 0],
     [status |-> "500", kind |-> "garbage", price |-> 0],
     [status |-> "200", kind |-> "garbage", price |-> 0],
     [status |-> "200", kind |-> "nofield", price |-> 0]}
    \cup {[status |-> "200", kind |-> "price", price |-> p] : p \in Prices}

\* float(data.get("price", 0)) on a 200 response; an undecodable body raises
\* and the enclosing except returns None.
price_of_body(r) ==
    IF r.kind = "price" THEN Some(r.price)
    ELSE IF r.kind = "nofield" THEN Some(0)
    ELSE None

\* The request of get_price is issued (and the caller suspends) only when the
\* symbol normalises and the asset type has an endpoint.
issues_request(symbol, asset_type) ==
    normalize_symbol(symbol).ok /\ asset_type \in SupportedAssets

\* What a block of code ends with: an exception on its way out, or a value.
Raised == [raised |-> TRUE, ret |-> None]
Returned(value) == [raised |-> FALSE, ret |-> value]

\* response.json() raises on an undecodable body and float() on a price field
\* that is no number.
body_raises(r) == r.kind \notin {"price", "nofield"}

\* Lines 63-70.
body_price(r) == IF body_raises(r) THEN Raised ELSE Returned(price_of_body(r))

\* Lines 60, 71, 84: the spot request is made in the branch of a response
\* whose status is not 200, and there for the asset type alpha only.
falls_back(asset_type, r1) ==
    asset_type = "alpha" /\ r1.status \notin {"exc", "200"}

\* Lines 86-98: the spot request in its own try; whatever it raises is logged
\* and the code goes on to the return None of line 101.
spot_fallback(r2) ==
    IF r2.status = "200" /\ ~body_raises(r2)
    THEN Returned(price_of_body(r2))
    ELSE Returned(None)

\* Lines 29-101, the block inside the try of get_price.
get_price_body(symbol, asset_type, r1, r2) ==
    IF ~normalize_symbol(symbol).ok THEN Raised
    ELSE IF asset_type \notin SupportedAssets THEN Returned(None)
    ELSE IF r1.status = "exc" THEN Raised
    ELSE IF r1.status = "200" THEN body_price(r1)
    ELSE IF falls_back(asset_type, r1) THEN spot_fallback(r2)
    ELSE Returned(None)

\* A variant of caught that lets the exception pass.
caught_not(o) == o

\* Lines 102-104 (and 182-184 of get_kline): except Exception, return None.
caught(o) == IF o.raised THEN Returned(None) ELSE o

get_price_outcome(symbol, asset_type, r1, r2) ==
    caught(get_price_body(symbol, asset_type, r1, r2))

get_price(symbol, asset_type, r1, r2) ==
    get_price_outcome(symbol, asset_type, r1, r2).ret

\* The URL of a price request: the configured domain and the path.
price_url(asset_type) ==
    CASE asset_type = "spot" -> <<"api_url", "/api/v3/ticker/price">>
      [] asset_type = "futures" -> <<"api_futures_url", "/fapi/v1/ticker/price">>
      [] asset_type = "margin" -> <<"api_url", "/sapi/v1/margin/market-price">>
      [] asset_type = "alpha" -> <<"api_alpha_url", "/api/v3/ticker/price">>

\* Lines 56, 60: the first request of get_price.
price_request(symbol, asset_type) ==
    [url |-> price_url(asset_type), symbol |-> normalize_symbol(symbol).val,
     interval |-> "", limit |-> 0]

\* Lines 87-88: the spot request made as a fallback, with the same params.
spot_request(symbol) ==
    [url |-> <<"api_url", "/api/v3/ticker/price">>,
     symbol |-> normalize_symbol(symbol).val, interval |-> "", limit |-> 0]

\* Line 121.
valid_intervals == {"1m", "5m", "15m", "30m", "1h", "4h", "1d"}

\* Line 127: the cap of limit.
MaxLimit == 1000

\* A variant of min that returns its first argument.
min_first(a, b) == a

min(a, b) == IF b < a THEN b ELSE a

\* The URL of a candle request.
kline_url(asset_type) ==
    CASE asset_type = "spot" -> <<"api_url", "/api/v3/klines">>
      [] asset_type = "futures" -> <<"api_futures_url", "/fapi/v1/klines">>
      [] asset_type = "margin" -> <<"api_url", "/api/v3/klines">>
      [] asset_type = "alpha" -> <<"api_alpha_url", "/api/v3/klines">>

\* Lines 117-156 of get_kline, up to the request: the block raises, returns
\* None, or reaches session.get with the params of lines 152-156.
kline_request(symbol, asset_type, interval, limit) ==
    IF ~normalize_symbol(symbol).ok THEN [sent |-> FALSE, out |-> Raised]
    ELSE IF interval \notin valid_intervals THEN [sent |-> FALSE, out |-> Returned(None)]
    ELSE IF asset_type \notin SupportedAssets THEN [sent |-> FALSE, out |-> Returned(None)]
    ELSE [sent |-> TRUE,
          request |-> [url |-> kline_url(asset_type),
                       symbol |-> normalize_symbol(symbol).val,
                       interval |-> interval, limit |-> min(limit, MaxLimit)]]

\* What the session gives back for a candle request: an exception, or a status
\* with a body that is undecodable or a JSON list of candles.
KlineResponses ==
    {[status |-> "exc", kind |-> "none", data |-> <<>>],
     [status |-> "500", kind |-> "garbage", data |-> <<>>],
     [status |-> "200", kind |-> "garbage", data |-> <<>>],
     [status |-> "200", kind |-> "list", data |-> <<>>],
     [status |-> "200", kind |-> "list", data |-> <<1, 2>>]}

\* Lines 160-181: the rest of the block once the response r has arrived.
kline_body(r) ==
    IF r.status = "exc" THEN Raised
    ELSE IF r.status = "200"
         THEN IF r.kind = "list" THEN Returned(Some(r.data)) ELSE Raised
         ELSE Returned(None)

\* ------------------------------------------------ the registry document
\* A loaded registry is a Python dict of dicts; its iteration order is the
\* insertion order, users first, then the ids of each user.  It is kept as the
\* sequence of its entries in that order.
Keys == Users \X Ids

Entry(u, id, rule) == [user |-> u, id |-> id, rule |-> rule]
Key(e) == <<e.user, e.id>>

has_user(m, u) == \E i \in 1..Len(m) : m[i].user = u
has_key(m, u, id) == \E i \in 1..Len(m) : m[i].user = u /\ m[i].id = id
index_of(m, u, id) == CHOOSE i \in 1..Len(m) : m[i].user = u /\ m[i].id = id
last_of_user(m, u) ==
    CHOOSE i \in 1..Len(m) : m[i].user = u /\ \A j \in (i + 1)..Len(m) : m[j].user # u

\* monitors[user_id][monitor_id] = monitor_data, creating monitors[user_id] first
\* when the user is new.
\* A variant of dict_set that keys the rules by monitor id alone.
dict_set_by_id(m, u, id, rule) ==
    IF \E i \in 1..Len(m) : m[i].id = id
    THEN [m EXCEPT ![CHOOSE i \in 1..Len(m) : m[i].id = id] = Entry(u, id, rule)]
    ELSE Append(m, Entry(u, id, rule))

dict_set(m, u, id, rule) ==
    IF has_key(m, u, id)
    THEN [m EXCEPT ![index_of(m, u, id)].rule = rule]
    ELSE IF has_user(m, u)
         THEN LET k == last_of_user(m, u)
              IN  SubSeq(m, 1, k) \o <<Entry(u, id, rule)>> \o SubSeq(m, k + 1, Len(m))
         ELSE Append(m, Entry(u, id, rule))

\* A variant of dict_del that drops every rule of the user.
dict_del_user(m, u, id) == SelectSeq(m, LAMBDA e : e.user # u)

\* del monitors[user_id][monitor_id], then del monitors[user_id] when it is empty.
dict_del(m, u, id) ==
    LET k == index_of(m, u, id)
    IN  SubSeq(m, 1, k - 1) \o SubSeq(m, k + 1, Len(m))

\* The file price_monitors.json: a complete JSON document ("ok", with the
\* registry it holds) or the remains of a write that failed after open(.., "w")
\* truncated the file ("partial").  A file that does not exist reads like an
\* empty registry.
EmptyFile == [kind |-> "ok", data |-> <<>>]
PartialFile == [kind |-> "partial", data |-> <<"{">>]

\* A variant of load_price_monitors that takes the text of the file for the
\* registry whatever it holds.
load_price_monitors_unguarded(f) == f.data

\* json.load raises on a partial document and the except returns {}.
load_price_monitors(f) == IF f.kind = "ok" THEN f.data ELSE <<>>

\* Outcomes of the write: it succeeds, open() raises, or json.dump / the flush
\* raises after open() truncated the file.
SaveOutcomes == {"ok", "eopen", "ewrite"}

save_price_monitors(f, monitors, so) ==
    CASE so = "ok" -> [file |-> [kind |-> "ok", data |-> monitors], ret |-> TRUE]
      [] so = "eopen" -> [file |-> f, ret |-> FALSE]
      [] so = "ewrite" -> [file |-> PartialFile, ret |-> FALSE]

\* --------------------------------------------------- utils/crypto.py
\* The AES key is the first KeyWidth characters of the key padded with '0'.
KeyWidth == 32

ljust(str, width, fillchar) ==
    IF Len(str) >= width THEN str
    ELSE str \o [i \in 1..(width - Len(str)) |-> fillchar]

aes_key(key) == SubSeq(ljust(key, KeyWidth, "0"), 1, KeyWidth)

\* os.urandom(16), drawn anew for every encryption: the IVs of the two
\* encryptions of one bind.
IvDraws == {<<1, 2>>, <<2, 1>>}

\* The ciphertext of AES-CBC with PKCS7 padding: it is determined by the IV, the
\* AES key and the plaintext, and determines the plaintext under that key.
encrypt_data(data, key, iv) == [iv |-> iv, key |-> aes_key(key), data |-> data]

\* Under another key the unpadding or the decoding fails (ValueError), or by
\* chance both pass and the result is some other text.
DecryptOutcomes == {"error", "garbage"}
Garbage == "?"
DecryptError == [ok |-> FALSE, val |-> ""]

decrypt_data(encrypted_data, key, g) ==
    IF aes_key(key) = encrypted_data.key
    THEN [ok |-> TRUE, val |-> encrypted_data.data]
    ELSE IF g = "garbage" THEN [ok |-> TRUE, val |-> Garbage]
    ELSE DecryptError

\* ------------------------------------------- services/api_key_service.py
\* Plaintext credentials users bind.
ApiKeys == {"", "k1"}
SecretKeys == {"s1", "s2"}

\* self.encryption_key = None
NoKey == <<>>
\* Line 48.
MinKeyLen == 16
\* secrets.token_hex(16): 32 hexadecimal digits.
GeneratedKeys == {[i \in 1..32 |-> "a"], [i \in 1..32 |-> "b"]}
\* Line 59: "default_fallback_key_12345678".
FallbackKey ==
    <<"d", "e", "f", "a", "u", "l", "t", "_", "f", "a", "l", "l", "b", "a", "c", "k",
      "_", "k", "e", "y", "_", "1", "2", "3", "4", "5", "6", "7", "8">>

\* A JSON file of the service: it does not exist ("missing"), holds a complete
\* document ("ok") or the remains of a write that failed after open(.., "w")
\* truncated it ("partial").
MissingKeyFile == [kind |-> "missing", key |-> NoKey]
MissingApiFile == [kind |-> "missing", data |-> {}]

\* user_api_keys.json maps a user to a record of two fields.  The document is
\* kept as the set of its (user, record) entries; a field is None or the
\* ciphertext.
\* A variant of credential_record that stores the two fields interchanged.
credential_record_swapped(encrypted_api_key, encrypted_secret_key) ==
    [api_key |-> Some(encrypted_secret_key), secret_key |-> Some(encrypted_api_key)]

\* A variant of credential_record that stores the api key only.
credential_record_partial(encrypted_api_key, encrypted_secret_key) ==
    [api_key |-> Some(encrypted_api_key), secret_key |-> None]

\* Lines 85-88.
credential_record(encrypted_api_key, encrypted_secret_key) ==
    [api_key |-> Some(encrypted_api_key), secret_key |-> Some(encrypted_secret_key)]

\* `user_id in user_api_data` and user_api_data[user_id].
has_credential(user_api_data, u) == \E e \in user_api_data : e.user = u
credential_of(user_api_data, u) == (CHOOSE e \in user_api_data : e.user = u).rec
\* A variant of credential_set that keeps the record a user already has.
credential_set_once(user_api_data, u, rec) ==
    IF \E e \in user_api_data : e.user = u THEN user_api_data
    ELSE user_api_data \cup {[user |-> u, rec |-> rec]}

\* A variant of credential_set that writes a document of the one record.
credential_set_alone(user_api_data, u, rec) == {[user |-> u, rec |-> rec]}

\* user_api_data[user_id] = record, and del user_api_data[user_id].
credential_set(user_api_data, u, rec) ==
    {e \in user_api_data : e.user # u} \cup {[user |-> u, rec |-> rec]}
credential_del(user_api_data, u) == {e \in user_api_data : e.user # u}

\* The `with open(.., "w")` and json.dump of lines 90-91 and 114-115.
write_user_api_file(f, user_api_data, so) ==
    CASE so = "ok" -> [file |-> [kind |-> "ok", data |-> user_api_data], ret |-> TRUE]
      [] so = "eopen" -> [file |-> f, ret |-> FALSE]
      [] so = "ewrite" -> [file |-> [kind |-> "partial", data |-> {}], ret |-> FALSE]

\* Lines 35-36.
already_initialized(S) == S.encryption_key_initialized

\* A variant of needs_new_key that generates a key whatever was read.
needs_new_key_always(key) == TRUE

\* Line 48.
needs_new_key(key) == key = NoKey \/ Len(key) < MinKeyLen

\* The service: its two files and the fields of the ApiKeyService object.
\* ApiKeyService._init_encryption_key with gen the value of secrets.token_hex
\* and kso the outcome of writing encryption_key.json.
init_encryption_key(S, gen, kso) ==
    IF already_initialized(S) THEN S
    ELSE LET read == IF S.encryption_key_file.kind = "ok"
                     THEN S.encryption_key_file.key
                     ELSE S.encryption_key
             key_file == CASE kso = "ok" -> [kind |-> "ok", key |-> gen]
                           [] kso = "eopen" -> S.encryption_key_file
                           [] kso = "ewrite" -> [kind |-> "partial", key |-> NoKey]
         IN  IF needs_new_key(read)
             THEN [S EXCEPT !.encryption_key = IF kso = "ok" THEN gen ELSE FallbackKey,
                            !.encryption_key_file = key_file,
                            !.encryption_key_initialized = TRUE]
             ELSE [S EXCEPT !.encryption_key = read,
                            !.encryption_key_initialized = TRUE]

\* ApiKeyService.bind_api_key: the service it leaves and the value it returns.
bind_api_key_result(S, u, api_key, secret_key, iv1, iv2, gen, kso, so) ==
    LET S1 == init_encryption_key(S, gen, kso)
        encrypted_api_key == encrypt_data(api_key, S1.encryption_key, iv1)
        encrypted_secret_key == encrypt_data(secret_key, S1.encryption_key, iv2)
        f == S1.user_api_file
    IN  IF f.kind = "partial"
        THEN \* json.load raises at line 83
             [state |-> S1, ret |-> FALSE]
        ELSE LET user_api_data ==
                     credential_set(f.data, u,
                         credential_record(encrypted_api_key, encrypted_secret_key))
                 w == write_user_api_file(f, user_api_data, so)
             IN  [state |-> [S1 EXCEPT !.user_api_file = w.file], ret |-> w.ret]

\* A variant of unbind_removes without the test of line 110.
unbind_removes_always(user_api_data, u) == TRUE

\* Line 110.
unbind_removes(user_api_data, u) == has_credential(user_api_data, u)

\* ApiKeyService.unbind_api_key.
unbind_api_key_result(S, u, so) ==
    LET f == S.user_api_file
    IN  IF f.kind = "missing" THEN [state |-> S, ret |-> FALSE]
        ELSE IF f.kind = "partial" THEN [state |-> S, ret |-> FALSE]
        ELSE IF unbind_removes(f.data, u)
        THEN LET w == write_user_api_file(f, credential_del(f.data, u), so)
             IN  [state |-> [S EXCEPT !.user_api_file = w.file], ret |-> w.ret]
        ELSE [state |-> S, ret |-> FALSE]

\* ApiKeyService.get_api_key: the service it leaves and the pair it returns, or
\* None.  g1 and g2 are the outcomes of decrypting under another key.
\* A variant of decryption_failed that looks at the first field only.
decryption_failed_first(api_key, secret_key) == ~api_key.ok

\* Lines 150-156: the ValueError of either decrypt_data ends in the except
\* clause, which returns None.
decryption_failed(api_key, secret_key) == ~api_key.ok \/ ~secret_key.ok

get_api_key_result(S, u, gen, kso, g1, g2) ==
    LET S1 == init_encryption_key(S, gen, kso)
        f == S1.user_api_file
        no == [state |-> S1, ret |-> None]
    IN  IF f.kind = "partial" THEN no
        ELSE IF ~has_credential(f.data, u) THEN no
        ELSE LET encrypted_api_key == credential_of(f.data, u).api_key
                 encrypted_secret_key == credential_of(f.data, u).secret_key
             IN  IF encrypted_api_key = None \/ encrypted_secret_key = None THEN no
                 ELSE LET api_key == decrypt_data(encrypted_api_key[1], S1.encryption_key, g1)
                          secret_key == decrypt_data(encrypted_secret_key[1], S1.encryption_key, g2)
                      IN  IF decryption_failed(api_key, secret_key) THEN no
                          ELSE [state |-> S1, ret |-> Some(<<api_key.val, secret_key.val>>)]

\* ------------------------------------------------------------------ state
VARIABLES
    user_api_file,              \* user_api_keys.json
    encryption_key_file,        \* encryption_key.json
    encryption_key,             \* self.encryption_key
    encryption_key_initialized  \* self.encryption_key_initialized

credVars ==
    <<user_api_file, encryption_key_file, encryption_key, encryption_key_initialized>>

VARIABLES
    file,                \* price_monitors.json
    tasks,               \* the asyncio tasks running _price_monitor_task
    nextTask,            \* number of the next task asyncio.create_task makes
    price_monitor_task,  \* self.price_monitor_task: NoTask or a task
    stops,               \* stop_price_monitor calls: the task each one awaits
    history              \* an observer: per key, the last of: set_price_monitor
                         \* returned an id ("set", also the initial value),
                         \* notification_callback was invoked ("notified"),
                         \* cancel_price_monitor returned True ("deleted")

VARIABLES
    query,        \* the call of get_price or get_kline in flight, or the last
                  \* one that returned, with the requests it sent
    symbol_call   \* an input of normalize_symbol, the result of the call and
                  \* the result of the call on that result

gatewayVars == <<query, symbol_call>>

monitorVars == <<file, tasks, nextTask, price_monitor_task, stops, history>>

vars ==
    <<file, tasks, nextTask, price_monitor_task, stops, history, credVars, gatewayVars>>

NoTask == 0
\* Task numbers, enough for every specification of this module.
TaskIds == 1..(MaxTasks + MaxLifeTasks)

\* A task: where it is suspended (pc), whether cancel() was called on it, and
\* the locals of _check_all_monitors that are read again: the snapshot, the
\* position in it, and current_price while the notification that embeds it is
\* awaited.  logged records the logger.error of line
\* 210, saved the value save_price_monitors returned in the last cycle; inact and
\* failed record, for the running cycle, the keys loaded inactive and the keys
\* whose get_price returned None; fetched and notify_failed record, for the
\* last cycle begun, the keys get_price was called for and the keys whose
\* callback raised (the logger.error of line 200).
NoTaskYet ==
    [pc |-> "none", cancel |-> FALSE, snap |-> <<>>, idx |-> 0,
     current_price |-> None, logged |-> FALSE, saved |-> FALSE,
     inact |-> {}, failed |-> {}, fetched |-> {}, notify_failed |-> {}]

\* No call of the price service yet.
NoResponse == [status |-> "none", kind |-> "none", price |-> 0]
NoKlineResponse == [status |-> "none", kind |-> "none", data |-> <<>>]
NoQuery ==
    [op |-> "none", pc |-> "idle", symbol |-> <<>>, asset_type |-> "",
     interval |-> "", limit |-> 0, requests |-> <<>>, r1 |-> NoResponse,
     r2 |-> NoResponse, kr |-> NoKlineResponse, raised |-> FALSE, ret |-> None]

\* No call of normalize_symbol yet.
NoSymbolCall == [pc |-> "none", raw |-> <<>>, first |-> ValueError, second |-> ValueError]

\* The observer is switched off (it stays the empty function) in the
\* specifications whose claims do not read it.
HistoryOff == <<>>
Record(k, event) ==
    IF DOMAIN history = {} THEN history ELSE [history EXCEPT ![k] = event]

\* The service after __init__, with no registry file on disk.
Constructed ==
    /\ file = EmptyFile
    /\ tasks = [t \in TaskIds |-> NoTaskYet]
    /\ nextTask = 1
    /\ price_monitor_task = NoTask
    /\ stops = [c \in StopCallers |-> NoTask]
    /\ user_api_file = MissingApiFile
    /\ encryption_key_file = MissingKeyFile
    /\ encryption_key = NoKey
    /\ encryption_key_initialized = FALSE
    /\ query = NoQuery

Init == Constructed /\ history = HistoryOff /\ symbol_call = NoSymbolCall

InitHistory ==
    Constructed /\ history = [k \in Keys |-> "set"] /\ symbol_call = NoSymbolCall

\* --------------------------------------------------- registry commands
\* MonitorService.set_price_monitor, lines 73-107: the file it leaves and the
\* value it returns (the id, or None).  A ValueError of normalize_symbol is
\* caught at line 105 before anything is loaded or written.
set_price_monitor_result(f, u, symbol, asset_type, target_price, direction, id, now, so) ==
    LET n == normalize_symbol(symbol)
        monitors == load_price_monitors(f)
        monitor_data ==
            [symbol |-> n.val, asset_type |-> asset_type,
             target_price |-> target_price, direction |-> direction,
             created_at |-> now, is_active |-> TRUE]
        w == save_price_monitors(f, dict_set(monitors, u, id, monitor_data), so)
    IN  IF n.ok
        THEN [file |-> w.file, ret |-> IF w.ret THEN Some(id) ELSE None]
        ELSE [file |-> f, ret |-> None]

\* MonitorService.set_price_monitor: no suspension between load and save.
set_price_monitor(u, symbol, asset_type, target_price, direction, id, now, so) ==
    LET w == set_price_monitor_result(file, u, symbol, asset_type, target_price,
                                      direction, id, now, so)
    IN  /\ file' = w.file
        /\ history' = IF w.ret # None THEN Record(<<u, id>>, "set") ELSE history
        /\ UNCHANGED <<tasks, nextTask, price_monitor_task, stops, credVars, gatewayVars>>

\* MonitorService.cancel_price_monitor, lines 116-139: the file it leaves and
\* the value it returns.
cancel_price_monitor_result(f, u, id, so) ==
    LET monitors == load_price_monitors(f)
    IN  IF ~has_user(monitors, u) THEN [file |-> f, ret |-> FALSE]
        ELSE IF ~has_key(monitors, u, id) THEN [file |-> f, ret |-> FALSE]
        ELSE save_price_monitors(f, dict_del(monitors, u, id), so)

\* MonitorService.cancel_price_monitor: no suspension between load and save.
cancel_price_monitor(u, id, so) ==
    LET w == cancel_price_monitor_result(file, u, id, so)
    IN  /\ file' = w.file
        /\ history' = IF w.ret THEN Record(<<u, id>>, "deleted") ELSE history
        /\ UNCHANGED <<tasks, nextTask, price_monitor_task, stops, credVars, gatewayVars>>

\* MonitorService.get_user_monitors: the rules of one user, in file order.
get_user_monitors(f, u) ==
    SelectSeq(load_price_monitors(f), LAMBDA e : e.user = u)

\* ------------------------------------------- commands/monitor.py
\* str.lower() on the words a user types.
lower(w) ==
    CASE w = "UP" -> "up"
      [] w = "DOWN" -> "down"
      [] w = "SPOT" -> "spot"
      [] OTHER -> w

Digits == {"0", "1", "2", "3"}
digit(c) == CASE c = "0" -> 0 [] c = "1" -> 1 [] c = "2" -> 2 [] c = "3" -> 3

RECURSIVE int_of(_)
int_of(ds) ==
    IF ds = <<>> THEN 0 ELSE 10 * int_of(SubSeq(ds, 1, Len(ds) - 1)) + digit(ds[Len(ds)])

\* float(target_price_str) for the strings a user types: surrounding blanks are
\* dropped, "nan" gives the NaN, an optional sign and digits give a number,
\* anything else raises ValueError.
float(str) ==
    LET t == strip(str)
        signed == t # <<>> /\ Head(t) \in {"-", "+"}
        ds == IF signed THEN Tail(t) ELSE t
    IN  IF t = <<"n", "a", "n">> THEN [ok |-> TRUE, val |-> NaN]
        ELSE IF ds # <<>> /\ \A i \in 1..Len(ds) : ds[i] \in Digits
        THEN [ok |-> TRUE,
              val |-> Num(IF signed /\ Head(t) = "-" THEN 0 - int_of(ds) ELSE int_of(ds))]
        ELSE ValueError

\* Lines 76-79: `target_price <= 0` is False for a positive number and for NaN.
price_accepted(target_price) ==
    ~(target_price.type = "float" /\ target_price.val <= 0)

\* handle_monitor_set, lines 60-95, for a message of six words: the arguments it
\* passes to set_price_monitor, or ok = FALSE when it answers with an error
\* before calling it.
monitor_set_request(symbol, asset_type_word, target_price_str, direction_word) ==
    LET asset_type_param == lower(asset_type_word)
        direction_param == lower(direction_word)
        target_price == float(target_price_str)
        n == normalize_symbol(symbol)
    IN  IF asset_type_param \notin {"spot", "futures", "margin", "alpha"}
        THEN [ok |-> FALSE]
        ELSE IF direction_param \notin {"up", "down"} THEN [ok |-> FALSE]
        ELSE IF ~target_price.ok THEN [ok |-> FALSE]
        ELSE IF ~price_accepted(target_price.val) THEN [ok |-> FALSE]
        ELSE IF ~n.ok THEN [ok |-> FALSE]
        ELSE [ok |-> TRUE, symbol |-> n.val, asset_type |-> asset_type_param,
              target_price |-> target_price.val, direction |-> direction_param]

\* handle_monitor_set: the validation, then set_price_monitor.
handle_monitor_set(u, symbol, asset_type_word, target_price_str, direction_word, id, now, so) ==
    LET q == monitor_set_request(symbol, asset_type_word, target_price_str, direction_word)
    IN  IF q.ok
        THEN set_price_monitor(u, q.symbol, q.asset_type, q.target_price, q.direction,
                               id, now, so)
        ELSE UNCHANGED vars

\* handle_monitor_cancel, lines 121-126.
handle_monitor_cancel(u, id, so) == cancel_price_monitor(u, id, so)

\* ------------------------------------------------ _check_all_monitors
\* A variant of is_skipped without the check of line 165.
is_skipped_never(monitor_data) == FALSE

\* Line 165: an inactive rule is skipped.
is_skipped(monitor_data) == ~monitor_data.is_active

\* Lines 178-179.  Comparing a float with a str raises TypeError; the `and`
\* evaluates the comparison only for the direction it names.
comparison_raises(monitor_data) ==
    /\ monitor_data.direction \in {"up", "down"}
    /\ monitor_data.target_price.type = "str"

\* A variant of triggers with strict comparisons.
triggers_strict(direction, current_price, target_price) ==
    \/ direction = "up" /\ current_price > target_price
    \/ direction = "down" /\ current_price < target_price

triggers(direction, current_price, target_price) ==
    \/ direction = "up" /\ current_price >= target_price
    \/ direction = "down" /\ current_price <= target_price

\* Lines 181-186: the display name of the asset type; a KeyError otherwise.
AssetTypeText == {"spot", "futures", "margin", "alpha"}

\* A variant of marks_inactive with lines 203-204 outside the `if`.
marks_inactive_always(triggered) == TRUE

\* Lines 203-204 sit inside the `if` of lines 178-179: the rule is marked
\* inactive exactly when it triggered.
marks_inactive(triggered) == triggered

\* A variant of mark that takes a rule that triggered out of the snapshot.
mark_removes(snap, i, triggered) ==
    IF marks_inactive(triggered)
    THEN SubSeq(snap, 1, i - 1) \o SubSeq(snap, i + 1, Len(snap))
    ELSE snap

mark(snap, i, triggered) ==
    IF marks_inactive(triggered)
    THEN [snap EXCEPT ![i].rule.is_active = FALSE]
    ELSE snap

\* The loop of lines 162-174 from position i: the first rule that is not skipped
\* and whose get_price issues a request (where the task suspends).
RECURSIVE first_fetch(_, _)
first_fetch(snap, i) ==
    IF i > Len(snap) THEN i
    ELSE IF ~is_skipped(snap[i].rule)
            /\ issues_request(snap[i].rule.symbol, snap[i].rule.asset_type)
         THEN i
         ELSE first_fetch(snap, i + 1)

\* The rules between i and j that were not skipped: get_price returned None for
\* them without a request.
immediate_none(snap, i, j) ==
    {Key(snap[k]) : k \in {k \in i..(j - 1) : ~is_skipped(snap[k].rule)}}

\* The cycle returns: its locals are gone.
end_cycle(tk, ret) ==
    [tk EXCEPT !.pc = "sleep", !.snap = <<>>, !.idx = 0, !.current_price = None,
               !.saved = ret, !.inact = {}, !.failed = {}]

\* A variant of after_exception in which the exception ends the task.
after_exception_ends_task(tk) == [end_cycle(tk, FALSE) EXCEPT !.pc = "done"]

\* Lines 209-210: an exception of the loop is logged, the write of line 207 is
\* not reached, and _price_monitor_task goes on to its sleep.
after_exception(tk) == [end_cycle(tk, FALSE) EXCEPT !.logged = TRUE]

\* The loop goes on from position i until the next suspension; when no rule is
\* left, line 207 writes the snapshot and the task sleeps (line 219).
Continue(t, tk, i, so) ==
    LET j == first_fetch(tk.snap, i)
        tk1 == [tk EXCEPT !.failed = @ \cup immediate_none(tk.snap, i, j),
                          !.fetched = @ \cup immediate_none(tk.snap, i, j)
                                        \cup (IF j <= Len(tk.snap)
                                              THEN {Key(tk.snap[j])} ELSE {})]
    IN  IF j <= Len(tk.snap)
        THEN /\ tasks' = [tasks EXCEPT ![t] = [tk1 EXCEPT !.pc = "fetch", !.idx = j]]
             /\ file' = file
        ELSE LET w == save_price_monitors(file, tk1.snap, so)
             IN  /\ file' = w.file
                 /\ tasks' = [tasks EXCEPT ![t] = end_cycle(tk1, w.ret)]

\* A task that was cancelled gets CancelledError at its next step and nothing else.
Runs(t) == tasks[t].pc # "none" /\ tasks[t].pc # "done" /\ ~tasks[t].cancel

\* The task's first step, or the end of asyncio.sleep: a scan cycle begins
\* (line 160) and runs to its first suspension.
StartCycle(t, so) ==
    /\ Runs(t)
    /\ tasks[t].pc \in {"new", "sleep"}
    /\ LET monitors == load_price_monitors(file)
           tk == [tasks[t] EXCEPT
                    !.snap = monitors, !.logged = FALSE, !.saved = FALSE,
                    !.failed = {}, !.fetched = {}, !.notify_failed = {},
                    !.inact = {Key(monitors[k]) :
                                 k \in {k \in 1..Len(monitors) : ~monitors[k].rule.is_active}}]
       IN  Continue(t, tk, 1, so)
    /\ UNCHANGED <<nextTask, price_monitor_task, stops, history, credVars, gatewayVars>>

\* get_price returns (line 174) with the responses r1 (and r2, for the alpha
\* fallback); lines 176-204 up to the next suspension.
FetchReturn(t, r1, r2, so) ==
    /\ Runs(t)
    /\ tasks[t].pc = "fetch"
    /\ LET tk == tasks[t]
           i == tk.idx
           e == tk.snap[i]
           monitor_data == e.rule
           current_price == get_price(monitor_data.symbol, monitor_data.asset_type, r1, r2)
       IN  IF current_price = None
           THEN /\ Continue(t, [tk EXCEPT !.failed = @ \cup {Key(e)},
                                          !.snap = mark(tk.snap, i, FALSE)],
                            i + 1, so)
                /\ UNCHANGED history
           ELSE IF comparison_raises(monitor_data)
           THEN /\ tasks' = [tasks EXCEPT ![t] = after_exception(tk)]
                /\ UNCHANGED <<file, history>>
           ELSE IF /\ monitor_data.target_price.type = "float"
                   /\ triggers(monitor_data.direction, current_price[1],
                               monitor_data.target_price.val)
           THEN IF monitor_data.asset_type \notin AssetTypeText
                THEN /\ tasks' = [tasks EXCEPT ![t] = after_exception(tk)]
                     /\ UNCHANGED <<file, history>>
                ELSE \* line 198: the callback is invoked and awaited
                     /\ history' = Record(Key(e), "notified")
                     /\ tasks' = [tasks EXCEPT ![t] =
                                    [tk EXCEPT !.pc = "notify",
                                               !.current_price = current_price]]
                     /\ UNCHANGED file
           ELSE /\ Continue(t, [tk EXCEPT !.snap = mark(tk.snap, i, FALSE)],
                            i + 1, so)
                /\ UNCHANGED history
    /\ UNCHANGED <<nextTask, price_monitor_task, stops, credVars, gatewayVars>>

\* What the awaited callback does when it completes.
CallbackOutcomes == {"returns", "raises"}

\* Line 198.
callback(co) == IF co = "raises" THEN Raised ELSE Returned(None)

\* A variant of notification_caught that lets the exception pass.
notification_caught_not(o) == o

\* Lines 197-200: the try around the callback; its except logs and goes on.
notification_caught(o) == IF o.raised THEN Returned(None) ELSE o

\* The callback completes: lines 203-204 mark the rule inactive in the snapshot
\* and the loop goes on; an exception that leaves the try of line 197 ends the
\* cycle at line 209.
NotifyReturn(t, co, so) ==
    /\ Runs(t)
    /\ tasks[t].pc = "notify"
    /\ LET tk == [tasks[t] EXCEPT
                    !.notify_failed = IF co = "raises"
                                      THEN @ \cup {Key(tasks[t].snap[tasks[t].idx])}
                                      ELSE @]
       IN  IF notification_caught(callback(co)).raised
           THEN /\ tasks' = [tasks EXCEPT ![t] = after_exception(tk)]
                /\ UNCHANGED file
           ELSE Continue(t, [tk EXCEPT !.snap = mark(tk.snap, tk.idx, TRUE),
                                       !.current_price = None],
                         tk.idx + 1, so)
    /\ UNCHANGED <<nextTask, price_monitor_task, stops, history, credVars, gatewayVars>>

\* ------------------------------------------------- _price_monitor_task
\* CancelledError is no Exception: it passes the except clauses of get_price and
\* of _check_all_monitors (lines 199, 209) and ends the loop at lines 220-221.
on_cancelled(tk) == [NoTaskYet EXCEPT !.pc = "done", !.cancel = TRUE]

CancelDelivered(t) ==
    /\ tasks[t].cancel
    /\ tasks[t].pc \in {"new", "fetch", "notify", "sleep"}
    /\ tasks' = [tasks EXCEPT ![t] = on_cancelled(tasks[t])]
    /\ UNCHANGED <<file, nextTask, price_monitor_task, stops, history, credVars, gatewayVars>>

\* ------------------------------------- start_price_monitor / stop_price_monitor
done(tk) == tk.pc = "done"

\* Line 230.
may_create(pmt) == pmt = NoTask \/ done(tasks[pmt])

start_price_monitor(cap) ==
    /\ IF may_create(price_monitor_task)
       THEN /\ nextTask <= cap
            /\ tasks' = [tasks EXCEPT ![nextTask] = [NoTaskYet EXCEPT !.pc = "new"]]
            /\ price_monitor_task' = nextTask
            /\ nextTask' = nextTask + 1
       ELSE UNCHANGED <<tasks, price_monitor_task, nextTask>>
    /\ UNCHANGED <<file, stops, history, credVars, gatewayVars>>

\* Lines 238-241: cancel() and the start of the await.
StopBegin(c) ==
    /\ stops[c] = NoTask
    /\ IF price_monitor_task # NoTask /\ ~done(tasks[price_monitor_task])
       THEN /\ tasks' = [tasks EXCEPT ![price_monitor_task].cancel = TRUE]
            /\ stops' = [stops EXCEPT ![c] = price_monitor_task]
       ELSE UNCHANGED <<tasks, stops>>
    /\ UNCHANGED <<file, nextTask, price_monitor_task, history, credVars, gatewayVars>>

\* A variant of await_returns that does not wait for the task.
await_returns_at_once(tk) == TRUE

\* Line 241: the await returns once the awaited task has finished.
await_returns(tk) == done(tk)

\* Lines 242-247: the await is over, the finally clause clears the field.
StopReturn(c) ==
    /\ stops[c] # NoTask
    /\ await_returns(tasks[stops[c]])
    /\ price_monitor_task' = NoTask
    /\ stops' = [stops EXCEPT ![c] = NoTask]
    /\ UNCHANGED <<file, tasks, nextTask, history, credVars, gatewayVars>>

\* ------------------------------------------------------- price service
\* A call returns: the caller gets ret, or the exception when raised.
returns(q, o) == [q EXCEPT !.pc = "idle", !.raised = o.raised, !.ret = o.ret]

\* PriceService.get_price up to its first suspension, lines 27-60: it returns
\* at once or has sent the request of its asset type.
get_price_call(symbol, asset_type) ==
    /\ query.pc = "idle"
    /\ LET q == [NoQuery EXCEPT !.op = "get_price", !.symbol = symbol,
                                !.asset_type = asset_type]
       IN  query' = IF issues_request(symbol, asset_type)
                    THEN [q EXCEPT !.pc = "first",
                                   !.requests = <<price_request(symbol, asset_type)>>]
                    ELSE returns(q, get_price_outcome(symbol, asset_type,
                                                      NoResponse, NoResponse))
    /\ UNCHANGED <<monitorVars, credVars, symbol_call>>

\* The first request completes with r1, lines 60-101: get_price returns, or
\* sends the spot request.
get_price_response(r1) ==
    /\ query.op = "get_price" /\ query.pc = "first"
    /\ LET q == [query EXCEPT !.r1 = r1]
       IN  query' = IF falls_back(query.asset_type, r1)
                    THEN [q EXCEPT !.pc = "fallback",
                                   !.requests = Append(@, spot_request(query.symbol))]
                    ELSE returns(q, get_price_outcome(query.symbol, query.asset_type,
                                                      r1, NoResponse))
    /\ UNCHANGED <<monitorVars, credVars, symbol_call>>

\* The spot request completes with r2, lines 88-104.
get_price_fallback_response(r2) ==
    /\ query.op = "get_price" /\ query.pc = "fallback"
    /\ query' = returns([query EXCEPT !.r2 = r2],
                        get_price_outcome(query.symbol, query.asset_type, query.r1, r2))
    /\ UNCHANGED <<monitorVars, credVars, symbol_call>>

\* PriceService.get_kline up to its suspension, lines 115-160.
get_kline_call(symbol, asset_type, interval, limit) ==
    /\ query.pc = "idle"
    /\ LET q == [NoQuery EXCEPT !.op = "get_kline", !.symbol = symbol,
                                !.asset_type = asset_type, !.interval = interval,
                                !.limit = limit]
           k == kline_request(symbol, asset_type, interval, limit)
       IN  query' = IF k.sent
                    THEN [q EXCEPT !.pc = "first", !.requests = <<k.request>>]
                    ELSE returns(q, caught(k.out))
    /\ UNCHANGED <<monitorVars, credVars, symbol_call>>

\* The candle request completes with r, lines 160-184.
get_kline_response(r) ==
    /\ query.op = "get_kline" /\ query.pc = "first"
    /\ query' = returns([query EXCEPT !.kr = r], caught(kline_body(r)))
    /\ UNCHANGED <<monitorVars, credVars, symbol_call>>

\* ------------------------------------------------------ normalize_symbol
\* normalize_symbol(raw) is called.
Normalize ==
    /\ symbol_call.pc = "input"
    /\ symbol_call' = [symbol_call EXCEPT !.pc = "once",
                                          !.first = normalize_symbol(symbol_call.raw)]
    /\ UNCHANGED <<monitorVars, credVars, query>>

\* normalize_symbol is called on the symbol the first call returned.
NormalizeAgain ==
    /\ symbol_call.pc = "once" /\ symbol_call.first.ok
    /\ symbol_call' = [symbol_call EXCEPT !.pc = "twice",
                                          !.second = normalize_symbol(symbol_call.first.val)]
    /\ UNCHANGED <<monitorVars, credVars, query>>

\* ---------------------------------------------------------- specification
SetMonitor ==
    \E u \in Users, symbol \in RawSymbols, asset_type \in AssetInputs,
       r \in RuleInputs, id \in Ids, now \in Times :
      \E so \in (IF normalize_symbol(symbol).ok THEN SaveOutcomes ELSE {"ok"}) :
        set_price_monitor(u, symbol, asset_type, r.target_price, r.direction, id, now, so)

CancelMonitor ==
    \E u \in Users, id \in Ids, so \in SaveOutcomes : cancel_price_monitor(u, id, so)

\* The second request of get_price is made for the asset type alpha only.
FallbackResponses(t) ==
    IF tasks[t].pc = "fetch" /\ tasks[t].snap[tasks[t].idx].rule.asset_type = "alpha"
    THEN Responses
    ELSE {[status |-> "exc", kind |-> "none", price |-> 0]}

TaskStep ==
    \E t \in TaskIds :
        \/ \E so \in SaveOutcomes : StartCycle(t, so)
        \/ \E r1 \in Responses, r2 \in FallbackResponses(t), so \in SaveOutcomes :
               FetchReturn(t, r1, r2, so)
        \/ \E co \in CallbackOutcomes, so \in SaveOutcomes : NotifyReturn(t, co, so)
        \/ CancelDelivered(t)

Start == start_price_monitor(MaxTasks)

Stop == StopBegin("s1") \/ StopReturn("s1")

Next == SetMonitor \/ CancelMonitor \/ TaskStep \/ Start \/ Stop

Spec == Init /\ [][Next]_vars

\* The monitor under the scheduling asyncio gives it: a sleep ends, a request
\* of get_price completes (the session has a timeout) and a cancellation is
\* delivered.  Nothing bounds the time the awaited callback takes (line 198),
\* so its completion is not assumed.
FairTask(t) ==
    /\ WF_vars(\E so \in SaveOutcomes : StartCycle(t, so))
    /\ WF_vars(\E r1 \in Responses, r2 \in FallbackResponses(t), so \in SaveOutcomes :
                   FetchReturn(t, r1, r2, so))
    /\ WF_vars(CancelDelivered(t))

SpecLive == Init /\ [][Next]_vars /\ \A t \in 1..MaxTasks : FairTask(t)

\* The monitor in the most favourable environment: every request of get_price
\* is answered 200 with the price 2, which is on the triggering side of every
\* numeric target set here; every write succeeds; the callback completes; the
\* task is never stopped.
TriggeringResponse == [status |-> "200", kind |-> "price", price |-> 2]

SetMonitorTrigger ==
    \E u \in Users, r \in RuleInputs :
        set_price_monitor(u, <<"b", "-", "t", "c", "u">>, "spot",
                          r.target_price, r.direction, "m1", 1, "ok")

StartTrigger == start_price_monitor(MaxTasks)

StartCycleTrigger(t) == StartCycle(t, "ok")
FetchReturnTrigger(t) == FetchReturn(t, TriggeringResponse, NoResponse, "ok")
NotifyReturnTrigger(t) == \E co \in CallbackOutcomes : NotifyReturn(t, co, "ok")

TaskStepTrigger ==
    \E t \in 1..MaxTasks :
        StartCycleTrigger(t) \/ FetchReturnTrigger(t) \/ NotifyReturnTrigger(t)

NextTrigger == SetMonitorTrigger \/ StartTrigger \/ TaskStepTrigger

SpecTrigger ==
    /\ Init /\ [][NextTrigger]_vars
    /\ \A t \in 1..MaxTasks :
          /\ WF_vars(StartCycleTrigger(t))
          /\ WF_vars(FetchReturnTrigger(t))
          /\ WF_vars(NotifyReturnTrigger(t))

\* The same program with the observer switched on.
SpecHistory == InitHistory /\ [][Next]_vars

\* The lifecycle of the monitor task under concurrent start and stop calls,
\* with a registry of one rule: up to MaxLifeTasks tasks, two stop callers.
LifeRuleInputs == {[direction |-> "up", target_price |-> Num(2)]}

SetMonitorLife ==
    \E r \in LifeRuleInputs, now \in Times :
        set_price_monitor("u1", <<"b", "-", "t", "c", "u">>, "spot",
                          r.target_price, r.direction, "m1", now, "ok")

StartLife == start_price_monitor(MaxLifeTasks)

StopLife == \E c \in StopCallers : StopBegin(c) \/ StopReturn(c)

NextLife == SetMonitorLife \/ TaskStep \/ StartLife \/ StopLife

SpecLife == Init /\ [][NextLife]_vars

\* The credential service: bind, unbind and lookup by two users, and the
\* construction of a new ApiKeyService object over the same files.
Service ==
    [user_api_file |-> user_api_file, encryption_key_file |-> encryption_key_file,
     encryption_key |-> encryption_key,
     encryption_key_initialized |-> encryption_key_initialized]

becomes(S) ==
    /\ user_api_file' = S.user_api_file
    /\ encryption_key_file' = S.encryption_key_file
    /\ encryption_key' = S.encryption_key
    /\ encryption_key_initialized' = S.encryption_key_initialized
    /\ UNCHANGED <<monitorVars, gatewayVars>>

\* The generated key and the outcome of writing it matter only to a call that
\* initialises the key.
KeyDraws == IF encryption_key_initialized THEN {[i \in 1..32 |-> "a"]} ELSE GeneratedKeys
KeyWrites == IF encryption_key_initialized THEN {"ok"} ELSE SaveOutcomes

bind_api_key ==
    \E u \in Users, api_key \in ApiKeys, secret_key \in SecretKeys,
       ivs \in IvDraws, gen \in KeyDraws, kso \in KeyWrites,
       so \in SaveOutcomes :
        becomes(bind_api_key_result(Service, u, api_key, secret_key,
                                    ivs[1], ivs[2], gen, kso, so).state)

unbind_api_key ==
    \E u \in Users, so \in SaveOutcomes :
        becomes(unbind_api_key_result(Service, u, so).state)

get_api_key ==
    \E u \in Users, gen \in KeyDraws, kso \in KeyWrites :
        becomes(get_api_key_result(Service, u, gen, kso, "error", "error").state)

\* ApiKeyService.__init__ after a restart of the plugin.
ApiKeyService ==
    /\ encryption_key' = NoKey
    /\ encryption_key_initialized' = FALSE
    /\ UNCHANGED <<user_api_file, encryption_key_file, monitorVars, gatewayVars>>

NextKeys == bind_api_key \/ unbind_api_key \/ get_api_key \/ ApiKeyService

SpecKeys == Init /\ [][NextKeys]_vars

\* The price service called from the query commands: one call at a time, with
\* symbols that normalise and do not, every asset type and one that does not
\* exist, and every outcome of the HTTP session.
GatewaySymbols == RawSymbols
GatewayAssets == SupportedAssets \cup {"bond"}
GatewayResponses ==
    Responses \cup {[status |-> "200", kind |-> "badprice", price |-> 0]}
Intervals == {"1h", "1d", "2h"}
Limits == {200, 1000, 1001}

GetPrice ==
    \/ \E symbol \in GatewaySymbols, asset_type \in GatewayAssets :
           get_price_call(symbol, asset_type)
    \/ \E r1 \in GatewayResponses : get_price_response(r1)
    \/ \E r2 \in GatewayResponses : get_price_fallback_response(r2)

GetKline ==
    \/ \E symbol \in GatewaySymbols, asset_type \in GatewayAssets,
          interval \in Intervals, limit \in Limits :
           get_kline_call(symbol, asset_type, interval, limit)
    \/ \E r \in KlineResponses : get_kline_response(r)

NextGateway == GetPrice \/ GetKline

SpecGateway == Init /\ [][NextGateway]_vars

\* normalize_symbol on every string of at most MaxSymbolLen characters over
\* letters of both cases, both separators and the blank, and on the
\* documented spellings of one pair.
MaxSymbolLen == 6
SymbolChars == {"a", "B", "-", "_", " "}
Spellings ==
    {<<"b", "t", "c", "-", "u", "s", "d", "t">>,
     <<"B", "T", "C", "_", "U", "S", "D", "T">>,
     <<"b", "t", "c", "u", "s", "d", "t">>}
SymbolInputs ==
    UNION {[1..n -> SymbolChars] : n \in 0..MaxSymbolLen} \cup Spellings

InitSymbol ==
    /\ Constructed /\ history = HistoryOff
    /\ symbol_call \in {[NoSymbolCall EXCEPT !.pc = "input", !.raw = raw] :
                            raw \in SymbolInputs}

NextSymbol == Normalize \/ NormalizeAgain

SpecSymbol == InitSymbol /\ [][NextSymbol]_vars

\* The registry commands alone, with the words users type: two ids per user,
\* targets of every sign, and symbols with blanks and separators.
RegistryIds == {"m1", "m2"}
RegistrySymbols == {<<" ", "b", "-", "t", "c", "u", " ">>, <<"a", "_", "b", " ">>}
DirectTargets == {Num(2), Num(0)}
TargetStrings == {<<"2">>, <<"0">>, <<"-", "1">>, <<"n", "a", "n">>, <<"a", "b", "c">>, <<" ", "2">>}
AssetWords == {"SPOT", "bond"}
DirectionWords == {"UP", "sideways"}

SetMonitorDirect ==
    \E u \in Users, symbol \in RegistrySymbols, target_price \in DirectTargets,
       now \in Times :
      \E id \in (IF normalize_symbol(symbol).ok THEN RegistryIds ELSE {"m1"}),
         so \in (IF normalize_symbol(symbol).ok THEN SaveOutcomes ELSE {"ok"}) :
        set_price_monitor(u, symbol, "spot", target_price, "up", id, now, so)

\* The id and the outcome of the write matter only to a request that reaches
\* set_price_monitor.
HandleMonitorSet ==
    \E u \in Users, symbol \in RegistrySymbols, asset_type_word \in AssetWords,
       target_price_str \in TargetStrings, direction_word \in DirectionWords,
       now \in Times :
      LET reaches == monitor_set_request(symbol, asset_type_word, target_price_str,
                                         direction_word).ok
      IN  \E id \in (IF reaches THEN RegistryIds ELSE {"m1"}),
             so \in (IF reaches THEN SaveOutcomes ELSE {"ok"}) :
            handle_monitor_set(u, symbol, asset_type_word, target_price_str,
                               direction_word, id, now, so)

HandleMonitorCancel ==
    \E u \in Users, id \in RegistryIds, so \in SaveOutcomes :
        handle_monitor_cancel(u, id, so)

NextRegistry == SetMonitorDirect \/ HandleMonitorSet \/ HandleMonitorCancel

SpecRegistry == Init /\ [][NextRegistry]_vars

\* ------------------------------------------------------------------ claims
RuleKeys(m) == {Key(m[i]) : i \in 1..Len(m)}
ActiveIn(m, k) == \E i \in 1..Len(m) : Key(m[i]) = k /\ m[i].rule.is_active
InactiveIn(m, k) == \E i \in 1..Len(m) : Key(m[i]) = k /\ ~m[i].rule.is_active

InCycle(t) == tasks[t].pc \in {"fetch", "notify"}
CurrentEntry(t) == tasks[t].snap[tasks[t].idx]
\* The step ends a cycle of task t whose write returned True.
CycleWritten(t) == InCycle(t) /\ tasks'[t].pc = "sleep" /\ tasks'[t].saved
\* The step invokes the notification callback for the rule task t evaluates.
Invokes(t) == tasks[t].pc = "fetch" /\ tasks'[t].pc = "notify"
Alive(t) == tasks[t].pc \in {"new", "fetch", "notify", "sleep"}

\* C1: when get_price returns a price p to a task that evaluates an active
\* rule with a numeric target, the rule triggers (the notification callback is
\* invoked) if and only if direction is up and p >= target_price, or direction
\* is down and p <= target_price.
C1_TriggerIff ==
    [][\A t \in TaskIds :
          (/\ tasks[t].pc = "fetch"
           /\ tasks'[t] # tasks[t]
           /\ CurrentEntry(t).rule.target_price.type = "float") =>
              \A r1 \in Responses, r2 \in FallbackResponses(t), so \in SaveOutcomes :
                  LET rule == CurrentEntry(t).rule
                      p == get_price(rule.symbol, rule.asset_type, r1, r2)
                  IN  (p # None /\ FetchReturn(t, r1, r2, so)) =>
                          (tasks'[t].pc = "notify"
                           <=> (\/ rule.direction = "up"
                                   /\ p[1] >= rule.target_price.val
                                \/ rule.direction = "down"
                                   /\ p[1] <= rule.target_price.val))]_vars

\* Witness of C1: a rule triggered on a price equal to its target.
C1_Witness ==
    \E t \in TaskIds :
        /\ tasks[t].pc = "notify"
        /\ tasks[t].current_price = Some(CurrentEntry(t).rule.target_price.val)

\* The state part of C2.
C2_State ==
    \A t \in TaskIds : \A k \in tasks[t].inact :
        /\ InactiveIn(tasks[t].snap, k)
        /\ InCycle(t) => Key(CurrentEntry(t)) # k

\* The step part of C2: when the notification of a triggered rule is over, the
\* rule is inactive in the snapshot; a cycle's write stores inactive the rule
\* whose notification it ends with and every rule it loaded inactive.
C2_Write ==
    \A t \in TaskIds :
        /\ (tasks[t].pc = "notify" /\ tasks'[t].pc = "fetch")
               => InactiveIn(tasks'[t].snap, Key(CurrentEntry(t)))
        /\ CycleWritten(t) =>
               \A k \in tasks[t].inact
                        \cup (IF tasks[t].pc = "notify" THEN {Key(CurrentEntry(t))} ELSE {}) :
                   InactiveIn(file'.data, k)

\* C2: a triggered rule becomes inactive, and a rule that a scan cycle loaded
\* with is_active == false is, in that cycle, never the rule whose price is
\* fetched or for which the notification is sent, stays inactive in the
\* snapshot, and is written back inactive.
C2_InactiveNeverRetriggered == [](C2_State) /\ [][C2_Write]_vars

\* Witness of C2: a cycle passed a rule it loaded inactive and evaluates a later one.
C2_Witness ==
    \E t \in TaskIds :
        /\ tasks[t].pc = "fetch"
        /\ \E i \in 1..(tasks[t].idx - 1) : Key(tasks[t].snap[i]) \in tasks[t].inact

\* C3: the notification callback is invoked at most once per (owner, monitor
\* id): no step invokes it for a key it was already invoked for.
C3_NotifiedAtMostOnce ==
    [][\A t \in TaskIds :
          Invokes(t) => history[Key(CurrentEntry(t))] # "notified"]_vars

\* The state part of C4.
C4_State ==
    \A t \in TaskIds : \A k \in tasks[t].failed :
        /\ ActiveIn(tasks[t].snap, k)
        /\ InCycle(t) => Key(CurrentEntry(t)) # k

\* The write part of C4: the rule evaluated last did not trigger when the
\* cycle ends from its fetch.
C4_Write ==
    \A t \in TaskIds :
        CycleWritten(t) =>
            \A k \in tasks[t].failed
                     \cup (IF tasks[t].pc = "fetch" THEN {Key(CurrentEntry(t))} ELSE {}) :
                ActiveIn(file'.data, k)

\* C4: a rule whose get_price returned None in a cycle is not notified in that
\* cycle, stays active in the snapshot, and is stored active by the cycle's write.
C4_FetchFailureNoChange == [](C4_State) /\ [][C4_Write]_vars

\* Witness of C4: a cycle went on after a failed fetch.
C4_Witness ==
    \E t \in TaskIds : tasks[t].failed # {} /\ tasks[t].pc = "fetch"

\* C5: a rule whose cancel_price_monitor returned True is absent from the
\* persisted registry until it is set again.
C5_DeleteNotLost ==
    \A k \in Keys :
        history[k] = "deleted" => k \notin RuleKeys(load_price_monitors(file))

\* C6: when the evaluation of a rule raises, no active rule of the snapshot is
\* left unevaluated and the rules that triggered in the cycle are stored inactive.
C6_ExceptionIsolated ==
    [][\A t \in TaskIds :
          (tasks[t].pc = "fetch" /\ tasks'[t].logged) =>
              /\ \A j \in (tasks[t].idx + 1)..Len(tasks[t].snap) :
                     is_skipped(tasks[t].snap[j].rule)
              /\ \A j \in 1..(tasks[t].idx - 1) :
                     (/\ is_skipped(tasks[t].snap[j].rule)
                      /\ Key(tasks[t].snap[j]) \notin tasks[t].inact)
                     => InactiveIn(file'.data, Key(tasks[t].snap[j]))]_vars

\* The state part of C7: a task that logged the exception of a cycle sleeps, and
\* a sleeping task that was not cancelled can start its next cycle.
C7_State ==
    \A t \in TaskIds :
        /\ tasks[t].logged => tasks[t].pc = "sleep"
        /\ (tasks[t].pc = "sleep" /\ Runs(t)) => ENABLED StartCycle(t, "ok")

\* The step part of C7: a task ends only after cancel() was called on it.
C7_Step ==
    \A t \in TaskIds : (~done(tasks[t]) /\ done(tasks'[t])) => tasks[t].cancel

\* C7: the monitor task ends only through cancellation; an exception of a scan
\* cycle is logged and the task sleeps and starts the next cycle.
C7_TaskSurvivesErrors == [](C7_State) /\ [][C7_Step]_vars

\* Witness of C7: a task sleeps after a cycle that raised.
C7_Witness == \E t \in TaskIds : tasks[t].logged /\ tasks[t].pc = "sleep"

\* C8: when stop_price_monitor returns, the task it awaited has finished and
\* price_monitor_task is None; a finished task takes no further step.
C8_StopAwaitsExit ==
    [][/\ \A c \in StopCallers :
              (stops[c] # NoTask /\ stops'[c] = NoTask) =>
                  done(tasks[stops[c]]) /\ price_monitor_task' = NoTask
       /\ \A t \in TaskIds : done(tasks[t]) => tasks'[t] = tasks[t]]_vars

\* Witness of C8: every stop call has returned and a task it cancelled is finished.
C8_Witness ==
    /\ \A c \in StopCallers : stops[c] = NoTask
    /\ price_monitor_task = NoTask
    /\ \E t \in TaskIds : done(tasks[t])

\* C9: the persisted monitor document is always a complete document.
C9_NoPartialWrite == file.kind = "ok"

\* C10: at most one task running _price_monitor_task is alive.
C10_SingleTask == Cardinality({t \in TaskIds : Alive(t)}) <= 1

\* The calls of set_price_monitor and cancel_price_monitor that SpecRegistry makes.
DirectCalls ==
    [u : Users, symbol : RegistrySymbols, target_price : DirectTargets,
     id : RegistryIds, now : Times, so : SaveOutcomes]
SetResult(c) ==
    set_price_monitor_result(file, c.u, c.symbol, "spot", c.target_price, "up",
                             c.id, c.now, c.so)
CancelCalls == [u : Users, id : RegistryIds, so : SaveOutcomes]
CancelResult(c) == cancel_price_monitor_result(file, c.u, c.id, c.so)
RulesOf(f, u) == Len(get_user_monitors(f, u))
Holds(m, u, id) == \E i \in 1..Len(m) : m[i].user = u /\ m[i].id = id
Without(m, u, id) == SelectSeq(m, LAMBDA e : ~(e.user = u /\ e.id = id))
\* Upper-case, no '-' or '_', no surrounding whitespace, length >= 4.
Canonical(sym) ==
    /\ Len(sym) >= 4
    /\ \A i \in 1..Len(sym) : sym[i] \notin {"-", "_"} /\ sym[i] \notin {"a", "b", "c", "t", "u"}
    /\ sym[1] # " " /\ sym[Len(sym)] # " "

\* C11: the id set_price_monitor returns is never an id the owner already
\* holds: a successful call adds exactly one rule to the owner's rules and
\* leaves every rule stored before as it was.
C11_UniqueId ==
    \A c \in DirectCalls :
        LET m == load_price_monitors(file)
            w == SetResult(c)
        IN  w.ret # None =>
              /\ ~Holds(m, c.u, w.ret[1])
              /\ RulesOf(w.file, c.u) = RulesOf(file, c.u) + 1
              /\ \A i \in 1..Len(m) :
                    \E j \in 1..Len(w.file.data) : w.file.data[j] = m[i]

\* C12: a rule that set_price_monitor stores is active and has its symbol in
\* canonical form; a call whose symbol cannot be normalized returns None and
\* leaves the file as it was; every stored symbol is canonical.
C12_StoredCanonical ==
    /\ \A i \in 1..Len(load_price_monitors(file)) :
          Canonical(load_price_monitors(file)[i].rule.symbol)
    /\ \A c \in DirectCalls :
          LET w == SetResult(c)
              m == load_price_monitors(w.file)
          IN  /\ w.ret # None =>
                    \E i \in 1..Len(m) :
                        /\ m[i].user = c.u /\ m[i].id = w.ret[1]
                        /\ m[i].rule.is_active
                        /\ Canonical(m[i].rule.symbol)
              /\ ~normalize_symbol(c.symbol).ok => w.ret = None /\ w.file = file

\* A rule stored from a symbol typed with blanks and a separator.
C12_Witness ==
    \E i \in 1..Len(load_price_monitors(file)) :
        /\ load_price_monitors(file)[i].rule.symbol = <<"B", "T", "C", "U">>
        /\ load_price_monitors(file)[i].rule.is_active

\* C13: every rule in the registry has a target_price greater than zero.
C13_PositiveTarget ==
    \A i \in 1..Len(load_price_monitors(file)) :
        LET target_price == load_price_monitors(file)[i].rule.target_price
        IN  target_price.type = "float" /\ target_price.val > 0

\* C14: cancel_price_monitor returns True exactly when the owner holds the id
\* and the write succeeds, and then the registry is the one before without
\* that rule; when the owner does not hold the id it returns False and the
\* file is as it was.
C14_CancelExact ==
    \A c \in CancelCalls :
        LET m == load_price_monitors(file)
            w == CancelResult(c)
        IN  /\ w.ret <=> (Holds(m, c.u, c.id) /\ c.so = "ok")
            /\ w.ret => w.file.kind = "ok" /\ w.file.data = Without(m, c.u, c.id)
            /\ ~Holds(m, c.u, c.id) => ~w.ret /\ w.file = file

\* A registry of three rules or more, one of which a cancel removes.
C14_Witness ==
    /\ Len(load_price_monitors(file)) >= 3
    /\ \E c \in CancelCalls :
          /\ CancelResult(c).ret
          /\ RulesOf(file, c.u) = 2
          /\ RulesOf(CancelResult(c).file, c.u) = 1

\* The calls of set_price_monitor that Spec makes with a symbol that normalises.
SpecCalls ==
    [u : Users, symbol : {sym \in RawSymbols : normalize_symbol(sym).ok},
     asset_type : AssetInputs, r : RuleInputs, id : Ids, now : Times]
Missing(f) == f = EmptyFile
Unparseable(f) == f.kind # "ok"

\* C15: with the file missing or unparseable, load_price_monitors returns the
\* empty registry, so does get_user_monitors for every user, and a
\* set_price_monitor whose write succeeds returns its id and leaves a registry
\* of that one rule.
C15_State ==
    (Missing(file) \/ Unparseable(file)) =>
        /\ load_price_monitors(file) = <<>>
        /\ \A u \in Users : get_user_monitors(file, u) = <<>>
        /\ \A c \in SpecCalls :
              LET w == set_price_monitor_result(file, c.u, c.symbol, c.asset_type,
                           c.r.target_price, c.r.direction, c.id, c.now, "ok")
              IN  /\ w.ret = Some(c.id)
                  /\ w.file.kind = "ok"
                  /\ Len(w.file.data) = 1
                  /\ Key(w.file.data[1]) = <<c.u, c.id>>

\* C15, continued: a scan cycle that begins with the file missing or
\* unparseable evaluates no rule: the task does not reach get_price or the
\* notification, it goes on to its sleep.
C15_Scan ==
    \A t \in TaskIds :
        (/\ Missing(file) \/ Unparseable(file)
         /\ tasks[t].pc \in {"new", "sleep"}
         /\ tasks'[t] # tasks[t]
         /\ ~tasks'[t].cancel)
        => tasks'[t].pc = "sleep" /\ ~tasks'[t].logged

BindCalls ==
    [u : Users, api_key : ApiKeys, secret_key : SecretKeys, ivs : IvDraws,
     gen : KeyDraws, kso : KeyWrites, so : SaveOutcomes]
BindResult(S, c) ==
    bind_api_key_result(S, c.u, c.api_key, c.secret_key, c.ivs[1], c.ivs[2],
                        c.gen, c.kso, c.so)
\* The lookups of a service S: the key draw and the outcome of its write matter
\* only when the lookup initialises the key.
LookupsOf(S) ==
    [gen : IF S.encryption_key_initialized THEN {[i \in 1..32 |-> "a"]} ELSE GeneratedKeys,
     kso : IF S.encryption_key_initialized THEN {"ok"} ELSE SaveOutcomes,
     g1 : DecryptOutcomes, g2 : DecryptOutcomes]
LookupCalls == LookupsOf(Service)
Lookup(S, u, l) == get_api_key_result(S, u, l.gen, l.kso, l.g1, l.g2).ret
Bound(S, u) == S.user_api_file.kind = "ok" /\ \E e \in S.user_api_file.data : e.user = u
RecordsOfOthers(S, u) ==
    IF S.user_api_file.kind = "ok" THEN {e \in S.user_api_file.data : e.user # u} ELSE {}

\* C16: with an unparseable user_api_keys.json every lookup reports the user
\* as unbound, and a bind_api_key whose write succeeds returns True and stores
\* the user's record.
C16_CorruptStoreResets ==
    user_api_file.kind = "partial" =>
        /\ \A u \in Users, l \in LookupCalls : Lookup(Service, u, l) = None
        /\ \A c \in BindCalls :
              c.so = "ok" => BindResult(Service, c).ret /\ Bound(BindResult(Service, c).state, c.u)

\* C17: after bind_api_key returned True, get_api_key of the same service
\* object returns the pair that was bound.
C17_BindLookupRoundTrip ==
    \A c \in BindCalls :
        LET w == BindResult(Service, c)
        IN  w.ret =>
              /\ w.state.encryption_key_initialized
              /\ \A l \in LookupsOf(w.state) :
                    Lookup(w.state, c.u, l) = Some(<<c.api_key, c.secret_key>>)

\* A bound user whose lookup returns the pair ("k1", "s1").
C17_Witness ==
    /\ encryption_key_initialized
    /\ Bound(Service, "u1")
    /\ \A l \in LookupCalls : Lookup(Service, "u1", l) = Some(<<"k1", "s1">>)

\* C18: unbind_api_key of a user with no record returns False and leaves the
\* service as it was, when the file does not exist and when it exists without
\* the user.
C18_UnbindUnbound ==
    \A u \in Users, so \in SaveOutcomes :
        (user_api_file.kind = "missing" \/ (user_api_file.kind = "ok" /\ ~Bound(Service, u)))
        => /\ ~unbind_api_key_result(Service, u, so).ret
           /\ unbind_api_key_result(Service, u, so).state = Service

\* The file exists with a record of u1 and none of u2.
C18_Witness ==
    /\ Bound(Service, "u1")
    /\ ~Bound(Service, "u2")
    /\ ~unbind_api_key_result(Service, "u2", "ok").ret

\* C19: every user has no record or one record holding both ciphertexts, and
\* get_api_key returns a pair only from a record that holds both.
C19_NeverPartiallyBound ==
    /\ \A e \in user_api_file.data :
          /\ e.rec.api_key # None /\ e.rec.secret_key # None
          /\ \A d \in user_api_file.data : d.user = e.user => d = e
    /\ \A u \in Users, l \in LookupCalls :
          Lookup(Service, u, l) # None =>
              \E e \in user_api_file.data :
                  e.user = u /\ e.rec.api_key # None /\ e.rec.secret_key # None

\* Both users are bound and both lookups return a pair.
C19_Witness ==
    /\ encryption_key_initialized
    /\ \A u \in Users :
          Bound(Service, u) /\ \A l \in LookupCalls : Lookup(Service, u, l) # None

\* The second of two binds of one user, and the lookups after them.
Rebinds == [api_key : ApiKeys, secret_key : SecretKeys]
Rebind(S, u, r) ==
    bind_api_key_result(S, u, r.api_key, r.secret_key, 2, 1,
                        [i \in 1..32 |-> "b"], "ok", "ok")

\* C20: a bind of a bound or unbound user that returns True, followed by
\* another that returns True, makes the lookup return the second pair; after
\* an unbind that returns True the lookup returns None; and none of them
\* changes the record of another user.
C20_Lifecycle ==
    /\ \A c \in BindCalls, r \in Rebinds :
          LET w1 == BindResult(Service, c)
              w2 == Rebind(w1.state, c.u, r)
          IN  w1.ret =>
                /\ RecordsOfOthers(w1.state, c.u) = RecordsOfOthers(Service, c.u)
                /\ w2.ret
                /\ \A l \in LookupsOf(w2.state) :
                      Lookup(w2.state, c.u, l) = Some(<<r.api_key, r.secret_key>>)
                /\ RecordsOfOthers(w2.state, c.u) = RecordsOfOthers(Service, c.u)
    /\ \A u \in Users, so \in SaveOutcomes :
          LET w == unbind_api_key_result(Service, u, so)
          IN  w.ret =>
                /\ Bound(Service, u)
                /\ \A l \in LookupsOf(w.state) : Lookup(w.state, u, l) = None
                /\ RecordsOfOthers(w.state, u) = RecordsOfOthers(Service, u)

\* Both users are bound, and an unbind of u1 returns True.
C20_Witness ==
    /\ Bound(Service, "u1") /\ Bound(Service, "u2")
    /\ unbind_api_key_result(Service, "u1", "ok").ret
    /\ ~Bound(unbind_api_key_result(Service, "u1", "ok").state, "u1")

\* C21: two bind_api_key calls for different users, in either order (a call
\* has no suspension point, so the orders are the interleavings): once both
\* returned True, the lookup of each user returns the pair bound for it.
C21_ConcurrentBinds ==
    \A c \in BindCalls, r \in Rebinds :
        \A v \in Users \ {c.u} :
            LET w1 == BindResult(Service, c)
                w2 == Rebind(w1.state, v, r)
            IN  (w1.ret /\ w2.ret) =>
                  /\ Bound(w2.state, c.u) /\ Bound(w2.state, v)
                  /\ \A l \in LookupsOf(w2.state) :
                        /\ Lookup(w2.state, c.u, l) = Some(<<c.api_key, c.secret_key>>)
                        /\ Lookup(w2.state, v, l) = Some(<<r.api_key, r.secret_key>>)

\* Both users are bound, to different pairs, and each lookup returns its own.
C21_Witness ==
    /\ encryption_key_initialized
    /\ \A l \in LookupCalls :
          /\ Lookup(Service, "u1", l) = Some(<<"k1", "s1">>)
          /\ Lookup(Service, "u2", l) = Some(<<"", "s2">>)

\* A new service object over the files of S, and key files as they may be found.
Fresh(S) == [S EXCEPT !.encryption_key = NoKey, !.encryption_key_initialized = FALSE]
StoredKeys ==
    GeneratedKeys \cup {FallbackKey, [i \in 1..15 |-> "c"], [i \in 1..16 |-> "c"]}
KeyInits == [gen : GeneratedKeys, kso : SaveOutcomes]

\* C22: a second call of _init_encryption_key changes neither the key nor the
\* key file; a new service object that finds a key of 16 characters or more
\* in the key file adopts it and does not write the file; and of two new
\* objects over the same files, the second adopts the key the first stored.
C22_KeyInitIdempotent ==
    /\ \A i \in KeyInits, j \in KeyInits :
          LET S1 == init_encryption_key(Service, i.gen, i.kso)
          IN  /\ S1.encryption_key_initialized
              /\ init_encryption_key(S1, j.gen, j.kso) = S1
    /\ \A key \in StoredKeys, i \in KeyInits :
          LET F == [Fresh(Service) EXCEPT !.encryption_key_file = [kind |-> "ok", key |-> key]]
              R == init_encryption_key(F, i.gen, i.kso)
          IN  Len(key) >= 16 =>
                /\ R.encryption_key = key
                /\ R.encryption_key_file = F.encryption_key_file
    /\ \A i \in KeyInits, j \in KeyInits :
          LET A == init_encryption_key(Fresh(Service), i.gen, i.kso)
              B == init_encryption_key(
                       [Fresh(Service) EXCEPT !.encryption_key_file = A.encryption_key_file],
                       j.gen, j.kso)
          IN  A.encryption_key_file.kind = "ok" =>
                /\ A.encryption_key = A.encryption_key_file.key
                /\ B.encryption_key = A.encryption_key
                /\ B.encryption_key_file = A.encryption_key_file

\* An initialised service whose key is the one the key file holds, with a
\* record encrypted under it.
C22_Witness ==
    /\ encryption_key_initialized
    /\ encryption_key_file.kind = "ok"
    /\ encryption_key = encryption_key_file.key
    /\ \E e \in user_api_file.data : e.rec.api_key[1].key = aes_key(encryption_key)

\* The values get_price hands to its caller: None or a price.
PriceOrNone == {None} \cup {Some(p) : p \in Prices \cup {0}}

\* C23: get_price returns a price or None and raises nothing, whatever the
\* input and the upstream outcome: a symbol that does not normalise, an asset
\* type without endpoint, a status other than 200, an undecodable body, an
\* exception of the HTTP session, on the first request and on the fallback.
C23_NeverRaises ==
    (query.op = "get_price" /\ query.pc = "idle") =>
        /\ ~query.raised
        /\ query.ret \in PriceOrNone
        /\ (\/ ~normalize_symbol(query.symbol).ok
            \/ query.asset_type \notin SupportedAssets
            \/ query.r1.status = "exc"
            \/ (query.r1.status = "200" /\ body_raises(query.r1))) => query.ret = None

\* A call whose request was answered by an exception of the session returned
\* None.
C23_Witness ==
    /\ query.op = "get_price" /\ query.pc = "idle"
    /\ Len(query.requests) = 1 /\ query.r1.status = "exc"
    /\ ~query.raised /\ query.ret = None

\* C24: an alpha query whose first request did not succeed asks the spot
\* endpoint and returns its price when that answers 200, None when both
\* fail; a spot, futures or margin query sends one request at most.
C24_AlphaFallback ==
    (query.op = "get_price" /\ query.pc = "idle" /\ Len(query.requests) >= 1) =>
        /\ (query.asset_type = "alpha" /\ query.r1.status # "200") =>
              /\ Len(query.requests) = 2
              /\ query.requests[2] = spot_request(query.symbol)
              /\ (query.r2.status = "200" /\ query.r2.kind = "price") =>
                     query.ret = Some(query.r2.price)
              /\ query.r2.status # "200" => query.ret = None
        /\ query.asset_type # "alpha" => Len(query.requests) = 1

\* C25: when normalize_symbol succeeds on an input, it succeeds on its own
\* result and returns that result unchanged.
C25_Idempotent ==
    symbol_call.pc = "twice" =>
        /\ symbol_call.second.ok
        /\ symbol_call.second.val = symbol_call.first.val

\* An input with a separator, a blank and both cases was normalised twice.
C25_Witness ==
    /\ symbol_call.pc = "twice"
    /\ symbol_call.raw = <<"-", " ", "a", "B", "a", "B">>
    /\ symbol_call.second.val = <<"A", "B", "A", "B">>

\* The reference the specification describes, written without the operators
\* of the model: drop every - and _, cut the blanks before the first and after
\* the last other character, put each letter in upper case.
Capitals ==
    [a |-> "A", b |-> "B", c |-> "C", d |-> "D", s |-> "S", t |-> "T", u |-> "U"]
Capital(c) == IF c \in DOMAIN Capitals THEN Capitals[c] ELSE c
Kept(raw) == SelectSeq(raw, LAMBDA c : c # "-" /\ c # "_")
Reference(raw) ==
    LET kept == Kept(raw)
        inner == {i \in 1..Len(kept) : kept[i] # " "}
    IN  IF inner = {} THEN <<>>
        ELSE LET lo == CHOOSE i \in inner : \A j \in inner : i <= j
                 hi == CHOOSE i \in inner : \A j \in inner : j <= i
             IN  [i \in 1..(hi - lo + 1) |-> Capital(kept[lo + i - 1])]
\* The input without its separators and in upper case: two inputs that differ
\* only in case or separators have the same fold.
Folded(raw) == [i \in 1..Len(Kept(raw)) |-> Capital(Kept(raw)[i])]

\* C26: normalize_symbol returns the reference result when that has four
\* characters or more and fails with ValueError when it is shorter or empty;
\* inputs that differ only in case or in separators get the same result, and
\* btc-usdt, BTC_USDT and btcusdt give BTCUSDT.
C26_MatchesReference ==
    symbol_call.pc \in {"once", "twice"} =>
        LET ref == Reference(symbol_call.raw)
        IN  /\ Len(ref) >= 4 => symbol_call.first = [ok |-> TRUE, val |-> ref]
            /\ Len(ref) < 4 => symbol_call.first = ValueError
            /\ symbol_call.first = normalize_symbol(Folded(symbol_call.raw))
            /\ symbol_call.raw \in Spellings =>
                   symbol_call.first.val = <<"B", "T", "C", "U", "S", "D", "T">>

\* btc-usdt was normalised to BTCUSDT.
C26_Witness ==
    /\ symbol_call.pc = "once"
    /\ symbol_call.raw = <<"b", "t", "c", "-", "u", "s", "d", "t">>
    /\ symbol_call.first = [ok |-> TRUE, val |-> <<"B", "T", "C", "U", "S", "D", "T">>]

\* C27: a scan cycle that ends has called get_price for every rule that was
\* active in the snapshot it loaded, whatever the other rules are.
C27_EveryActiveRuleFetched ==
    [][\A t \in TaskIds :
          (InCycle(t) /\ tasks'[t].pc = "sleep") =>
              \A k \in 1..Len(tasks[t].snap) :
                  Key(tasks[t].snap[k]) \notin tasks[t].inact =>
                      Key(tasks[t].snap[k]) \in tasks'[t].fetched]_vars

\* C28: a task that awaits the notification callback gets on: its cycle ends
\* (or the task does), whether or not the callback ever completes.
C28_NotifyNeverBlocks ==
    \A t \in 1..MaxTasks :
        (tasks[t].pc = "notify") ~> (tasks[t].pc \in {"sleep", "done"})

\* C29: when the callback raises for a triggered rule, the exception does not
\* reach the except of the cycle, the rule is marked inactive, the scan goes on
\* with the next rule, and a cycle that has no rule left writes the snapshot
\* with the mark.
C29_NotifyFailureNonFatal ==
    [][\A t \in TaskIds :
          (tasks[t].pc = "notify" /\ Key(CurrentEntry(t)) \in tasks'[t].notify_failed) =>
              LET tk == tasks[t]
                  i == tk.idx
                  marked == [tk.snap EXCEPT ![i].rule.is_active = FALSE]
                  j == first_fetch(tk.snap, i + 1)
              IN  /\ ~tasks'[t].logged
                  /\ j <= Len(tk.snap) =>
                        /\ tasks'[t].pc = "fetch" /\ tasks'[t].idx = j
                        /\ tasks'[t].snap = marked
                  /\ j > Len(tk.snap) =>
                        /\ tasks'[t].pc = "sleep"
                        /\ \E so \in SaveOutcomes :
                              /\ file' = save_price_monitors(file, marked, so).file
                              /\ tasks'[t].saved = save_price_monitors(file, marked, so).ret
                        /\ tasks'[t].saved => InactiveIn(file'.data, Key(tk.snap[i]))]_vars

\* A cycle in which the callback raised has ended with its write, and the
\* rule is stored inactive.
C29_Witness ==
    \E t \in TaskIds :
        /\ tasks[t].pc = "sleep" /\ tasks[t].saved /\ ~tasks[t].logged
        /\ tasks[t].notify_failed # {}
        /\ file.kind = "ok"
        /\ \A k \in tasks[t].notify_failed : InactiveIn(file.data, k)

\* C30: a candle request carries a limit of 1000 at most, and get_kline called
\* with an interval outside 1m, 5m, 15m, 30m, 1h, 4h, 1d or with an asset
\* type other than spot, futures, margin, alpha returns None and sends nothing.
C30_KlineBounded ==
    query.op = "get_kline" =>
        /\ \A i \in 1..Len(query.requests) : query.requests[i].limit <= 1000
        /\ (\/ query.interval \notin {"1m", "5m", "15m", "30m", "1h", "4h", "1d"}
            \/ query.asset_type \notin {"spot", "futures", "margin", "alpha"}) =>
              /\ query.requests = <<>>
              /\ query.pc = "idle" /\ ~query.raised /\ query.ret = None

\* A call with limit 1001 has sent its request with limit 1000.
C30_Witness ==
    /\ query.op = "get_kline" /\ query.limit = 1001
    /\ Len(query.requests) = 1 /\ query.requests[1].limit = 1000

\* C31: a rule that set_price_monitor stored while a scan cycle was between
\* its load and its write is present and active in the registry after the
\* write of that cycle.
C31_CreateNotLost ==
    [][\A t \in TaskIds :
          CycleWritten(t) =>
              \A i \in 1..Len(load_price_monitors(file)) :
                  LET e == load_price_monitors(file)[i]
                  IN  (Key(e) \notin RuleKeys(tasks[t].snap) /\ e.rule.is_active) =>
                          ActiveIn(load_price_monitors(file'), Key(e))]_vars

\* The registry the running cycle of task t loaded: its snapshot with the marks
\* of the cycle undone.
LoadedBy(t) ==
    [i \in 1..Len(tasks[t].snap) |->
        IF Key(tasks[t].snap[i]) \in tasks[t].inact
        THEN tasks[t].snap[i]
        ELSE [tasks[t].snap[i] EXCEPT !.rule.is_active = TRUE]]
\* No command has changed the registry since the cycle loaded it.
NoCommandSince(t) == load_price_monitors(file) = LoadedBy(t)
\* The same rules in the same places, some of them no longer active.
FlipsOnly(old, new) ==
    /\ Len(new) = Len(old)
    /\ \A i \in 1..Len(old) :
          \/ new[i] = old[i]
          \/ old[i].rule.is_active /\ new[i] = [old[i] EXCEPT !.rule.is_active = FALSE]

C33_OneBatchWrite ==
    [][\A t \in TaskIds :
          Runs(t) =>
              /\ (tasks'[t] # tasks[t] /\ tasks'[t].pc \in {"fetch", "notify"}) =>
                     file' = file
              /\ (InCycle(t) /\ tasks'[t].pc = "sleep") =>
                     /\ ~tasks'[t].logged
                     /\ \A k \in (tasks[t].idx + 1)..Len(tasks[t].snap) :
                            Key(tasks[t].snap[k]) \in tasks'[t].fetched
                                                      \cup tasks[t].inact]_vars

\* The rule stored under key k is active and has a numeric target.
ActiveNumeric(k) ==
    \E i \in 1..Len(load_price_monitors(file)) :
        LET e == load_price_monitors(file)[i]
        IN  Key(e) = k /\ e.rule.is_active /\ e.rule.target_price.type = "float"

\* C34: with the monitor task running and every fetch answered by a price on
\* the triggering side, a stored active rule is eventually notified and stored
\* inactive (or is replaced or removed by a command before that).
C34_EventuallyNotified ==
    \A k \in Keys :
        (ActiveNumeric(k) /\ price_monitor_task # NoTask) ~> ~ActiveNumeric(k)

\* The rules of the owners other than u, in file order.
OthersOf(m, u) == SelectSeq(m, LAMBDA e : e.user # u)

Quiescent == \A c \in StopCallers : stops[c] = NoTask

\* C36: once every start_price_monitor and stop_price_monitor call has
\* returned, a monitor task that runs (and was not cancelled) is there only
\* when price_monitor_task refers to a running task: a start issued during a
\* stop leaves a running task that the field refers to.
C36_LastCallWins ==
    (Quiescent /\ \E t \in TaskIds : Runs(t)) =>
        price_monitor_task # NoTask /\ Runs(price_monitor_task)

\* C37: a set_price_monitor that returns None, because the symbol does not
\* normalise or because the write failed, leaves a registry that reads as it
\* did before the call.
C37_FailedCreateChangesNothing ==
    \A c \in DirectCalls :
        SetResult(c).ret = None =>
            load_price_monitors(SetResult(c).file) = load_price_monitors(file)

\* C38: a price that get_price returns is the price field of the 200 response
\* that answered its last request; a 200 response without a price field gives
\* None.
C38_ReportedPriceOnly ==
    (query.op = "get_price" /\ query.pc = "idle" /\ query.ret # None) =>
        LET r == IF Len(query.requests) = 2 THEN query.r2 ELSE query.r1
        IN  r.status = "200" /\ r.kind = "price" /\ query.ret = Some(r.price)

\* The stored ciphertext was made with another key than the one the service
\* holds and its decryption is refused.
Undecryptable(field, S, g) ==
    field # None /\ field[1].key # aes_key(S.encryption_key) /\ g = "error"

\* C39: when the decryption of a stored field of the user's record fails,
\* get_api_key returns None, as for a user without record, and
\* user_api_keys.json is left as it was.
C39_CorruptRecordLookup ==
    \A u \in Users, l \in LookupCalls :
        LET S1 == init_encryption_key(Service, l.gen, l.kso)
            w == get_api_key_result(Service, u, l.gen, l.kso, l.g1, l.g2)
        IN  /\ w.state.user_api_file = user_api_file
            /\ \A e \in user_api_file.data :
                  (/\ user_api_file.kind = "ok" /\ e.user = u
                   /\ e.rec.api_key # None /\ e.rec.secret_key # None
                   /\ \/ Undecryptable(e.rec.api_key, S1, l.g1)
                      \/ Undecryptable(e.rec.secret_key, S1, l.g2))
                  => w.ret = None

\* The record of u1 was encrypted with a key the service no longer holds, and
\* its lookup returns None.
C39_Witness ==
    /\ encryption_key_initialized /\ user_api_file.kind = "ok"
    /\ \E e \in user_api_file.data :
          /\ e.user = "u1"
          /\ e.rec.api_key # None /\ e.rec.secret_key # None
          /\ e.rec.secret_key[1].key # aes_key(encryption_key)
    /\ \A l \in LookupCalls : l.g2 = "error" => Lookup(Service, "u1", l) = None
====
